---- MODULE Spec2Model ----
(***************************************************************************)
(* ConciergeChef (src/agent.py): one ConciergeChef.handle_request run.     *)
(* RecipeTool.search filters and ranks the catalog,                        *)
(* PlannerAgent.generate_weekly_plan selects seven meals and repairs the   *)
(* plan against the budget, ShoppingListAgent.build_shopping_list nets the *)
(* plan's ingredients against the pantry.                                  *)
(*                                                                         *)
(* Money is counted in tenths of a currency unit (2.5 is 25), so that the  *)
(* float sums of the code are integer sums here.  A Python dict is a       *)
(* record/function whose DOMAIN is its key set; a missing key is a missing *)
(* field, read through Get with the default the code passes to dict.get.   *)
(* The process-wide generator of the random module is the variable rng, a  *)
(* small linear congruential generator.  Recipes carry unique identifiers, *)
(* as the catalog's data model requires; their titles, the calendar        *)
(* events and the memory file play no part in the plan and are left out.   *)
(***************************************************************************)
EXTENDS Integers, Sequences, FiniteSets, Bags, TLC

\* ------------------------------------------------------------------ bounds
MaxCatalog == 9     \* recipes in the catalog: 0..MaxCatalog
MaxSeed == 1        \* initial generator states: 0..MaxSeed
RngMod == 16        \* size of the generator's state space
JitterLevels == 4   \* random.random() is one of 0/J .. (J-1)/J

\* ------------------------------------------------------- program constants
WeekLen == 7             \* len(plan) < 7, plan[:7]
MaxAttempts == 5         \* attempts < 5
DefaultTotalCost == 30   \* p.get("estimated_cost", 3.0), in tenths
DefaultSortCost == 0     \* x.get("estimated_cost", 0) in the repair sort
DefaultSummaryCost == 0  \* p.get("estimated_cost", 0) in the summary
DefaultPrice == 15       \* base.get(ing, 1.5), in tenths
DefaultDiet == "vegetarian"

\* ------------------------------------------------------------------ inputs
\* Recipe shapes the catalog is drawn from: a zero-cost recipe (no
\* ingredients), two priced vegetarian ones, and one that fails either filter.
Kinds ==
  << [ingredients |-> << >>,                             diet |-> "vegetarian", time |-> 20],
     [ingredients |-> <<"rice", "tomato">>,              diet |-> "vegetarian", time |-> 25],
     [ingredients |-> <<"pasta", "tomato", "olive oil">>, diet |-> "vegetarian", time |-> 30],
     [ingredients |-> <<"saffron">>,                     diet |-> "vegan",      time |-> 50] >>

\* Catalogs: sequences of recipes with unique identifiers (the identifier is
\* the position), one per multiset of kinds.
KindSeqs ==
  UNION { { s \in [1..n -> 1..Len(Kinds)] : \A k \in 1..(n-1) : s[k] <= s[k+1] }
          : n \in 0..MaxCatalog }

MkRecipe(id, kind) ==
  [id |-> id, ingredients |-> Kinds[kind].ingredients,
   diet |-> Kinds[kind].diet, time |-> Kinds[kind].time]

Catalogs == { [k \in 1..Len(s) |-> MkRecipe(k, s[k])] : s \in KindSeqs }

Pantries == { {}, {"rice", "tomato"} }
\* user_profile["diet"]: "absent" is a profile without the key, "None" a
\* falsy value (no dietary filter).
ProfileDiets == { "absent", "None" }
MaxTimes == { 45, 60 }
Budgets == { 0, 150 }

VARIABLES
  recipes,          \* RecipeTool.recipes
  pantry,           \* the pantry of the request
  profile_diet,     \* user_profile.get("diet")
  max_time,         \* constraints["max_time"]
  budget,           \* constraints["budget"]
  rng,              \* state of the random module's generator
  pc,               \* position in handle_request / generate_weekly_plan
  all_candidates,   \* generate_weekly_plan: all_candidates
  plan,             \* generate_weekly_plan: plan
  i,                \* generate_weekly_plan: i
  total_estimated,  \* generate_weekly_plan: total_estimated
  attempts,         \* generate_weekly_plan: attempts
  summary,          \* handle_request: summary
  shopping          \* handle_request: shopping

vars == << recipes, pantry, profile_diet, max_time, budget, rng, pc,
           all_candidates, plan, i, total_estimated, attempts, summary, shopping >>

inputs == << recipes, pantry, profile_diet, max_time, budget >>

\* ----------------------------------------------------------------- helpers
Max(a, b) == IF a >= b THEN a ELSE b
Min(a, b) == IF a <= b THEN a ELSE b

\* dict.get(key, default)
Get(d, key, default) == IF key \in DOMAIN d THEN d[key] ELSE default

Range(s) == { s[k] : k \in DOMAIN s }

RECURSIVE SumSeq(_)
SumSeq(s) == IF s = << >> THEN 0 ELSE Head(s) + SumSeq(Tail(s))

\* sum(d.values()) of a dict d
RECURSIVE SumValues(_)
SumValues(d) ==
  IF DOMAIN d = {} THEN 0
  ELSE LET k == CHOOSE x \in DOMAIN d : TRUE
       IN d[k] + SumValues([x \in DOMAIN d \ {k} |-> d[x]])

\* ------------------------------------------------------------------ random
\* One step of the generator.
RngNext(s) == (5 * s + 3) % RngMod
\* random.random(): the jitter level drawn in generator state s.
RandomLevel(s) == s % JitterLevels
\* random.choice(seq) in generator state s.
RandomChoice(s, seq) == seq[(s % Len(seq)) + 1]

\* --------------------------------------------------------------- PriceTool
BasePrice(ing) ==
  CASE ing = "rice" -> 25
    [] ing = "canned beans" -> 12
    [] ing = "tomato" -> 7
    [] ing = "pasta" -> 10
    [] ing = "olive oil" -> 30
    [] ing = "mixed veg" -> 20
    [] ing = "soy sauce" -> 10
    [] OTHER -> DefaultPrice

\* PriceTool.estimate: {ing: base.get(ing, 1.5) for ing in ingredients}, a dict
\* keyed by ingredient name.
Estimate(ingredients) == [ing \in Range(ingredients) |-> BasePrice(ing)]

\* sum(self.price_tool.estimate(ingredients).values())
EstimatedCost(ingredients) == SumValues(Estimate(ingredients))

\* -------------------------------------------------------------- RecipeTool
\* diet = user_profile.get("diet", "vegetarian")
Diet == IF profile_diet = "absent" THEN DefaultDiet ELSE profile_diet

\* Python truth value of a diet tag
Truthy(d) == d # "None"

\* Mutant of Matches: the max_time test is lost.
MatchesDietOnly(r, diet, maxt) ==
  ~(Truthy(diet) /\ Get(r, "diet", "None") # diet)

\* RecipeTool.search: the two `continue` tests, negated.
Matches(r, diet, maxt) ==
  /\ ~(Truthy(diet) /\ Get(r, "diet", "None") # diet)
  /\ ~(Get(r, "time", 999) > maxt)

\* len(pantry.intersection(r["ingredients"]))
PantryOverlap(ingredients, pan) == Cardinality(pan \cap Range(ingredients))

\* score = pantry_overlap + random.random(), in units of 1/JitterLevels
Score(overlap, level) == overlap * JitterLevels + level

\* r_copy of search: the recipe with pantry_overlap and score set.
Scored(r, pan, s) ==
  LET po == PantryOverlap(Get(r, "ingredients", << >>), pan)
  IN ("pantry_overlap" :> po @@ "score" :> Score(po, RandomLevel(s))) @@ r

\* results.sort(key=lambda x: (-x["score"], x["time"])): x goes before y
RankedBefore(x, y) ==
  \/ x.score > y.score
  \/ x.score = y.score /\ x.time < y.time

\* Stable insertion of x into the sorted s: after every element that does not
\* have to come after it.
RECURSIVE InsertRanked(_, _)
InsertRanked(x, s) ==
  IF s = << >> THEN << x >>
  ELSE IF RankedBefore(x, Head(s)) THEN << x >> \o s
  ELSE << Head(s) >> \o InsertRanked(x, Tail(s))

RECURSIVE SortRanked(_, _)
SortRanked(s, acc) ==
  IF s = << >> THEN acc ELSE SortRanked(Tail(s), InsertRanked(Head(s), acc))

\* The for loop of search from recipe k on, in generator state s:
\* [results, rng] when the loop ends.
RECURSIVE SearchLoop(_, _, _, _, _, _)
SearchLoop(rs, k, s, results, diet, pan) ==
  IF k > Len(rs) THEN [results |-> results, rng |-> s]
  ELSE IF Matches(rs[k], diet, max_time)
       THEN SearchLoop(rs, k + 1, RngNext(s),
                       Append(results, Scored(rs[k], pan, s)), diet, pan)
       ELSE SearchLoop(rs, k + 1, s, results, diet, pan)

\* RecipeTool.search({"diet": diet, "pantry": pantry, "max_time": max_time})
SearchResult ==
  LET r == SearchLoop(recipes, 1, rng, << >>, Diet, pantry)
  IN [results |-> SortRanked(r.results, << >>), rng |-> r.rng]

\* ------------------------------------------------------------ PlannerAgent
\* Which step of the planner placed an entry (history only; the code keeps no
\* such field).
Placed(entry, by) == ("placed_by" :> by) @@ entry

\* candidate = c.copy(); candidate["estimated_cost"] = sum(estimate(...))
Costed(c) == ("estimated_cost" :> EstimatedCost(c.ingredients)) @@ c

\* sum([p.get("estimated_cost", 3.0) for p in plan])
RECURSIVE PlanTotal(_)
PlanTotal(p) ==
  IF p = << >> THEN 0
  ELSE Get(Head(p), "estimated_cost", DefaultTotalCost) + PlanTotal(Tail(p))

\* Mutant of LoopCap: the cap without its floor of 7.
LoopCapDoubled(n) == n * 2

\* max(7, len(all_candidates)*2)
LoopCap(n) == Max(WeekLen, n * 2)

\* while len(plan) < 7 and i < max(7, len(all_candidates)*2)
SelectCond == Len(plan) < WeekLen /\ i < LoopCap(Len(all_candidates))

\* the sort key of the repair loop: x.get("estimated_cost", 0)
SortKey(x) == Get(x, "estimated_cost", DefaultSortCost)

\* Mutant of CostBefore: an unstable descending order (ties reversed).
CostBeforeOrEqual(x, y) == SortKey(x) >= SortKey(y)

\* Mutant of CostBefore: reverse=True is lost.
CostBeforeAscending(x, y) == SortKey(x) < SortKey(y)

\* plan.sort(key=..., reverse=True): x goes before y
CostBefore(x, y) == SortKey(x) > SortKey(y)

RECURSIVE InsertByCost(_, _)
InsertByCost(x, s) ==
  IF s = << >> THEN << x >>
  ELSE IF CostBefore(x, Head(s)) THEN << x >> \o s
  ELSE << Head(s) >> \o InsertByCost(x, Tail(s))

RECURSIVE SortLoop(_, _)
SortLoop(s, acc) ==
  IF s = << >> THEN acc ELSE SortLoop(Tail(s), InsertByCost(Head(s), acc))

\* plan.sort(key=lambda x: x.get("estimated_cost", 0), reverse=True)
SortByCostDesc(p) == SortLoop(p, << >>)

\* c["id"] not in [p["id"] for p in plan]
NotInPlan(c, p) == \A k \in 1..Len(p) : p[k].id # c.id

\* for c in all_candidates[::-1]: the index of the first c not in the plan,
\* scanning from index k down; 0 when the loop ends without a break.
RECURSIVE ScanReverse(_, _, _)
ScanReverse(cands, k, p) ==
  IF k = 0 THEN 0
  ELSE IF NotInPlan(cands[k], p) THEN k
  ELSE ScanReverse(cands, k - 1, p)

\* Mutant of FindReplacement: the membership test is lost.
FindReplacementLast(cands, p) == Len(cands)

FindReplacement(cands, p) == ScanReverse(cands, Len(cands), p)

\* One body of the repair loop, up to the recomputation of the total.
Repaired(cands, p) ==
  LET sorted == SortByCostDesc(p)
      k == FindReplacement(cands, sorted)
  IN IF k = 0 \/ sorted = << >> THEN sorted
     ELSE [sorted EXCEPT ![1] = Placed(Costed(cands[k]), "repair")]

\* Mutant of RepairCond: the bound is off by one upwards.
RepairCondOffByOne == total_estimated > budget /\ attempts <= MaxAttempts

\* Mutant of RepairCond: the bound is off by one downwards.
RepairCondOneShort == total_estimated > budget /\ attempts < MaxAttempts - 1

\* while total_estimated > budget and attempts < 5
RepairCond == total_estimated > budget /\ attempts < MaxAttempts

\* p["pantry_overlap"] = len(set(p["ingredients"]) & set(pantry))
WithOverlap(p, pan) ==
  ("pantry_overlap" :> PantryOverlap(Get(p, "ingredients", << >>), pan)) @@ p

\* ------------------------------------------------------- ShoppingListAgent
\* agg[ing] = agg.get(ing, 0) + 1
Counted(agg, ing) ==
  [x \in DOMAIN agg \cup {ing} |-> Get(agg, x, 0) + (IF x = ing THEN 1 ELSE 0)]

\* for ing in meal.get("ingredients", [])
RECURSIVE CountIngredients(_, _)
CountIngredients(agg, ings) ==
  IF ings = << >> THEN agg
  ELSE CountIngredients(Counted(agg, Head(ings)), Tail(ings))

\* for meal in plan
RECURSIVE Aggregate(_, _)
Aggregate(agg, p) ==
  IF p = << >> THEN agg
  ELSE Aggregate(CountIngredients(agg, Get(Head(p), "ingredients", << >>)), Tail(p))

\* Mutant of Wanted: the pantry is not subtracted.
WantedAlways(ing, pan) == TRUE

\* the test of the dict comprehension: ing not in pantry
Wanted(ing, pan) == ing \notin pan

\* {ing: qty for ing, qty in agg.items() if ing not in pantry}
Netted(agg, pan) == [ing \in { x \in DOMAIN agg : Wanted(x, pan) } |-> agg[ing]]

\* list(shopping.keys()), in some order
RECURSIVE KeyList(_)
KeyList(S) ==
  IF S = {} THEN << >>
  ELSE LET k == CHOOSE x \in S : TRUE IN << k >> \o KeyList(S \ {k})

\* ShoppingListAgent.build_shopping_list(plan, pantry)
BuildShoppingList(p, pan) ==
  LET items == Netted(Aggregate(<< >>, p), pan)
      prices == Estimate(KeyList(DOMAIN items))
  IN [items |-> items, prices |-> prices, estimated_total |-> SumValues(prices)]

\* ---------------------------------------------------------- ConciergeChef
\* one element of summary["plan"]
SummaryEntry(p) ==
  [id |-> p.id, ingredients |-> p.ingredients,
   estimated_cost |-> Get(p, "estimated_cost", DefaultSummaryCost)]

\* summary of handle_request
Summary(p, total) ==
  [plan |-> [k \in 1..Len(p) |-> SummaryEntry(p[k])], estimated_total |-> total]

\* ------------------------------------------------------------------- state
Init ==
  /\ recipes \in Catalogs
  /\ pantry \in Pantries
  /\ profile_diet \in ProfileDiets
  /\ max_time \in MaxTimes
  /\ budget \in Budgets
  /\ rng \in 0..MaxSeed
  /\ pc = "start"
  /\ all_candidates = << >>
  /\ plan = << >>
  /\ i = 0
  /\ total_estimated = 0
  /\ attempts = 0
  /\ summary = [plan |-> << >>, estimated_total |-> 0]
  /\ shopping = [items |-> << >>, prices |-> << >>, estimated_total |-> 0]

\* generate_weekly_plan up to the selection loop: the call of search.
Search ==
  /\ pc = "start"
  /\ all_candidates' = SearchResult.results
  /\ rng' = SearchResult.rng
  /\ plan' = << >>
  /\ i' = 0
  /\ pc' = "select"
  /\ UNCHANGED << inputs, total_estimated, attempts, summary, shopping >>

\* selection loop, i < len(all_candidates): the next ranked candidate, costed.
SelectCandidate ==
  /\ pc = "select"
  /\ SelectCond
  /\ i < Len(all_candidates)
  /\ plan' = Append(plan, Placed(Costed(all_candidates[i + 1]), "ranked"))
  /\ i' = i + 1
  /\ UNCHANGED << inputs, rng, pc, all_candidates, total_estimated, attempts,
                  summary, shopping >>

\* selection loop, else branch: random.choice(self.recipe_tool.recipes), the
\* catalog's own dict, appended as it is.
SelectFallback ==
  /\ pc = "select"
  /\ SelectCond
  /\ ~(i < Len(all_candidates))
  /\ recipes # << >>
  /\ plan' = Append(plan, Placed(RandomChoice(rng, recipes), "fallback"))
  /\ rng' = RngNext(rng)
  /\ i' = i + 1
  /\ UNCHANGED << inputs, pc, all_candidates, total_estimated, attempts,
                  summary, shopping >>

\* selection loop, else branch on an empty catalog: random.choice raises
\* IndexError, which nothing catches.
SelectFallbackRaises ==
  /\ pc = "select"
  /\ SelectCond
  /\ ~(i < Len(all_candidates))
  /\ recipes = << >>
  /\ pc' = "error"
  /\ UNCHANGED << inputs, rng, all_candidates, plan, i, total_estimated,
                  attempts, summary, shopping >>

\* the selection loop ends: plan = plan[:7], the total, attempts = 0
EndSelect ==
  /\ pc = "select"
  /\ ~SelectCond
  /\ plan' = SubSeq(plan, 1, Min(WeekLen, Len(plan)))
  /\ total_estimated' = PlanTotal(plan')
  /\ attempts' = 0
  /\ pc' = "repair"
  /\ UNCHANGED << inputs, rng, all_candidates, i, summary, shopping >>

\* one iteration of the repair loop
RepairAttempt ==
  /\ pc = "repair"
  /\ RepairCond
  /\ plan' = Repaired(all_candidates, plan)
  /\ total_estimated' = PlanTotal(plan')
  /\ attempts' = attempts + 1
  /\ UNCHANGED << inputs, rng, pc, all_candidates, i, summary, shopping >>

\* the repair loop ends: pantry_overlap of every entry, and the return
Return ==
  /\ pc = "repair"
  /\ ~RepairCond
  /\ plan' = [k \in 1..Len(plan) |-> WithOverlap(plan[k], pantry)]
  /\ pc' = "returned"
  /\ UNCHANGED << inputs, rng, all_candidates, i, total_estimated, attempts,
                  summary, shopping >>

\* handle_request after the planner: the summary and the shopping list
Summarize ==
  /\ pc = "returned"
  /\ summary' = Summary(plan, total_estimated)
  /\ shopping' = BuildShoppingList(plan, pantry)
  /\ pc' = "done"
  /\ UNCHANGED << inputs, rng, all_candidates, plan, i, total_estimated, attempts >>

Next ==
  \/ Search
  \/ SelectCandidate
  \/ SelectFallback
  \/ SelectFallbackRaises
  \/ EndSelect
  \/ RepairAttempt
  \/ Return
  \/ Summarize

Spec == Init /\ [][Next]_vars

\* ------------------------------------------------------------ properties
Returned == pc \in {"returned", "done"}

\* the multiset of the elements of a sequence
BagOfSeq(s) == [x \in Range(s) |-> Cardinality({ k \in DOMAIN s : s[k] = x })]

\* s without its k-th element
Without(s, k) == [j \in 1..(Len(s) - 1) |-> IF j < k THEN s[j] ELSE s[j + 1]]

\* the cost an entry carries; none for an entry without the key
HasCost(e) == "estimated_cost" \in DOMAIN e

\* the sum of the unit costs of the distinct ingredient names of an entry
OracleCost(e) == SumValues([ing \in Range(e.ingredients) |-> BasePrice(ing)])

\* ranked candidates whose identifier is not in the plan
AbsentCandidates ==
  { k \in DOMAIN all_candidates :
      \A j \in DOMAIN plan : plan[j].id # all_candidates[k].id }

\* a repair attempt is about to run
AttemptDue == pc = "repair" /\ total_estimated > budget /\ attempts < 5

\* C1: the plan never has more than 7 entries, and a returned plan has exactly
\* 7 whenever the catalog (the fallback pool) is non-empty, however many
\* candidates passed the filter.
C1_PlanLength ==
  /\ Len(plan) <= 7
  /\ (Returned /\ recipes # << >>) => Len(plan) = 7

\* C1 witness: a returned plan of 7 although no candidate passed the filter.
C1_Witness ==
  /\ pc = "done"
  /\ Len(all_candidates) = 0
  /\ recipes # << >>
  /\ Len(plan) = 7

\* C2 (as claimed): the planner never ends in an error state; with an empty
\* catalog it returns an empty plan.
C2_NoException ==
  /\ pc # "error"
  /\ (recipes = << >> /\ pc \in {"repair", "returned", "done"}) => Len(plan) = 0

\* C3: the repair loop runs at most 5 attempts and runs one only while the
\* total exceeds the budget; every step taken in the loop is either an attempt,
\* which counts, or the exit, so the loop ends after at most 5 attempts, at
\* once when the total is within the budget.
C3_RepairBounded ==
  /\ [](attempts <= 5)
  /\ [][attempts' # attempts =>
          /\ total_estimated > budget
          /\ attempts < 5
          /\ attempts' = attempts + 1]_vars
  /\ [][pc = "repair" =>
          \/ pc' = "repair" /\ attempts' = attempts + 1
          \/ pc' = "returned" /\ attempts' = attempts]_vars
  /\ [][(pc = "repair" /\ total_estimated <= budget) => pc' = "returned"]_vars

\* C3 witness: the loop stopped early, the total having dropped to the budget.
C3_Witness ==
  /\ Returned
  /\ attempts > 0
  /\ attempts < 5
  /\ total_estimated <= budget

\* C4 (as claimed): the returned total is the sum of the entries' costs, each
\* the oracle cost of the entry's ingredients, and the summary reports the same
\* costs.
C4_TotalIsSumOfCosts ==
  pc = "done" =>
    /\ total_estimated = SumSeq([k \in DOMAIN plan |-> OracleCost(plan[k])])
    /\ \A k \in DOMAIN plan :
         /\ HasCost(plan[k]) /\ plan[k].estimated_cost = OracleCost(plan[k])
         /\ summary.plan[k].estimated_cost = OracleCost(plan[k])
    /\ summary.estimated_total =
         SumSeq([k \in DOMAIN plan |-> summary.plan[k].estimated_cost])

\* the requested filter, read off the inputs
PassesFilter(e) ==
  /\ e.time <= max_time
  /\ profile_diet = "absent" => e.diet = "vegetarian"
  /\ profile_diet \notin {"absent", "None"} => e.diet = profile_diet

\* C5: no ranked candidate fails the time or dietary filter, and neither does
\* any plan entry that fallback fill did not place, repair insertions included.
C5_FilterIsHard ==
  /\ \A k \in DOMAIN all_candidates : PassesFilter(all_candidates[k])
  /\ \A k \in DOMAIN plan :
       plan[k].placed_by # "fallback" => PassesFilter(plan[k])

\* C5 witness: a returned plan with a repair insertion, from a catalog that
\* holds a recipe the filter excludes.
C5_Witness ==
  /\ pc = "done"
  /\ \E k \in DOMAIN plan : plan[k].placed_by = "repair"
  /\ \E k \in DOMAIN recipes : ~PassesFilter(recipes[k])

\* C6: the keys of the demand list are the ingredient names of the plan that
\* are not in the pantry, all of them and no others.
C6_DemandKeys ==
  pc = "done" =>
    DOMAIN shopping.items =
      (UNION { Range(plan[k].ingredients) : k \in DOMAIN plan }) \ pantry

\* C6 witness: a plan that uses pantry names and other names.
C6_Witness ==
  /\ pc = "done"
  /\ \E k \in DOMAIN plan : Range(plan[k].ingredients) \cap pantry # {}
  /\ DOMAIN shopping.items # {}

\* the total as the code sums it: 3.0 for an entry that carries no cost
CarriedTotal ==
  SumSeq([k \in DOMAIN plan |->
            IF HasCost(plan[k]) THEN plan[k].estimated_cost ELSE 30])

\* C7 (as claimed): with budget 0 the planner returns after exactly 5 attempts.
C7_ExactlyFive ==
  (Returned /\ budget = 0) => (attempts = 5 /\ total_estimated = CarriedTotal)

\* C7 (amended): with budget 0 the planner returns after exactly 5 attempts
\* unless the total is 0, and the total it returns is the plan's sum then.
C7_FiveUnlessZero ==
  (Returned /\ budget = 0) =>
    /\ attempts = 5 \/ total_estimated = 0
    /\ total_estimated = CarriedTotal

\* C7 witness: budget 0, five attempts, a positive total returned.
C7_Witness ==
  /\ pc = "done"
  /\ budget = 0
  /\ attempts = 5
  /\ total_estimated > 0

\* the earliest entry of maximal cost in the plan
MaxCostIndex ==
  CHOOSE k \in DOMAIN plan :
    /\ \A j \in DOMAIN plan : SortKey(plan[j]) <= SortKey(plan[k])
    /\ \A j \in 1..(k - 1) : SortKey(plan[j]) < SortKey(plan[k])

\* the lowest-ranked candidate whose identifier is not in the plan
LowestAbsent ==
  CHOOSE k \in AbsentCandidates : \A j \in AbsentCandidates : j <= k

C9_NoopKeepsSequence ==
  [][(AttemptDue /\ AbsentCandidates = {}) =>
       /\ attempts' = attempts + 1
       /\ plan' = plan
       /\ total_estimated' = total_estimated]_vars

\* C9 (amended): an attempt that finds no absent candidate counts, and leaves
\* the multiset of entries and the total as they were; the entries are left in
\* descending order of cost (an entry without a cost counting 0), entries of
\* equal cost in the order they had.
C9_NoopOnlySorts ==
  [][(AttemptDue /\ AbsentCandidates = {}) =>
       /\ attempts' = attempts + 1
       /\ total_estimated' = total_estimated
       /\ BagOfSeq(plan') = BagOfSeq(plan)
       /\ \A k \in 1..(Len(plan') - 1) : SortKey(plan'[k]) >= SortKey(plan'[k + 1])
       /\ \A c \in { SortKey(plan[k]) : k \in DOMAIN plan } :
            SelectSeq(plan', LAMBDA e : SortKey(e) = c)
              = SelectSeq(plan, LAMBDA e : SortKey(e) = c)]_vars

\* C9 witness: after an attempt that found no absent candidate, two ranked
\* entries stand against their rank order.
C9_Witness ==
  /\ pc = "repair"
  /\ attempts >= 1
  /\ AbsentCandidates = {}
  /\ \E k \in 1..(Len(plan) - 1) :
       /\ plan[k].placed_by = "ranked"
       /\ plan[k + 1].placed_by = "ranked"
       /\ plan[k].score < plan[k + 1].score

\* C10: with at most 7 candidates no attempt changes the multiset of entries
\* or the total, and the planner returns after 5 attempts with the total still
\* over the budget if it was over it, after none otherwise.
C10_SmallPoolNeverRepairs ==
  /\ [][(pc = "repair" /\ pc' = "repair" /\ Len(all_candidates) <= 7) =>
          /\ BagOfSeq(plan') = BagOfSeq(plan)
          /\ total_estimated' = total_estimated]_vars
  /\ []((Returned /\ Len(all_candidates) <= 7) =>
          /\ total_estimated > budget => attempts = 5
          /\ total_estimated <= budget => attempts = 0)

\* C10 witness: a pool of at most 7, five attempts spent, still over budget.
C10_Witness ==
  /\ pc = "done"
  /\ Len(all_candidates) \in 1..7
  /\ attempts = 5
  /\ total_estimated > budget

====
